---- MODULE Spec2Model ----
(***************************************************************************)
(* Model of the ad-generator backend: the JSON job store                   *)
(* (backend/app/models/job_storage.py), the background job runner          *)
(* (backend/app/services/job_service.py) and the request handlers and      *)
(* WebSocket hub of backend/main.py.                                       *)
(*                                                                         *)
(* Scheduling: everything but the two generation backends runs on one      *)
(* asyncio event loop, so the code between two awaits is one atomic step.  *)
(* The backends run on executor threads and touch no shared state.         *)
(* asyncio.CancelledError is a BaseException (Python >= 3.8, which the     *)
(* google-genai dependency requires), so `except Exception` never catches  *)
(* it.  uuid4-derived ids are taken to be fresh.                           *)
(***************************************************************************)
EXTENDS Integers, Sequences, FiniteSets, TLC

\* ---------------------------------------------------------------- bounds
MaxJobs == 2        \* start requests issued
MaxObservers == 3   \* WebSocket clients
MaxTime == 3        \* direct store calls, one clock tick each
MaxHubJobs == 1     \* start requests issued while observers are connected
MaxFaultJobs == 1   \* start requests issued while the file system may fail
MaxDeleteJobs == 1  \* start requests issued while jobs are being deleted
MaxLiveJobs == 1    \* start requests issued in the runs checked for progress

\* ------------------------------------------------------------- constants
None == "None"                       \* Python None in a string-typed slot
NoProgress == -1                     \* Python None in the int-typed `progress` slot

PENDING == "pending"
PROCESSING == "processing"
COMPLETED == "completed"
FAILED == "failed"
JobStatus == {PENDING, PROCESSING, COMPLETED, FAILED}

LOGO == "logo"
BOTH == "both"

JobId(n) == "job_" \o ToString(n)    \* f"job_{uuid.uuid4().hex[:12]}", fresh per call
JobIds == {JobId(n) : n \in 1..MaxJobs}

Prompts == {"acme"}
Users == {"default"}
LogoResults == {"/output/logo_1.png"}            \* generate_logo return values
VideoResults == {"/output/video_1.mp4"}          \* generate_ad_video return values
LogoCauses == {"500: Failed to generate logo"}   \* str(e) of a logo failure
VideoCauses == {"500: Failed to generate video"} \* str(e) of a video failure

VARIABLES
    jobs_file,           \* jobs.json: the sequence under its "jobs" key
    io_ok,               \* whether the file system serves jobs.json
    now,                 \* the wall clock read by datetime.now()
    uuid_count,          \* ids drawn so far
    active_jobs,         \* JobManager.active_jobs
    task,                \* per id: the asyncio task running _process_job
    logo_fut,            \* per id: the executor future of generate_logo
    video_fut,           \* per id: the executor future of generate_ad_video
    active_connections,  \* ConnectionManager.active_connections
    ws,                  \* per observer: state of its WebSocket transport
    inflight,            \* broadcasts suspended between two deliveries
    received,            \* per observer: the messages delivered to it
    reply,               \* the most recent HTTP response
    cancelled,           \* ids for which JobManager.cancel_job returned True
    removals,            \* per id: how often it was deleted from active_jobs
    key_errors,          \* ids whose registry deletion raised KeyError
    value_errors,        \* observers whose manager.disconnect raised ValueError
    audience,            \* per id and route: the observers registered when the
                         \* broadcast of that request began
    deleted,             \* ids for which delete_job returned True
    listed               \* the most recent get_user_jobs call and its result

vars == <<jobs_file, io_ok, now, uuid_count, active_jobs, task, logo_fut,
          video_fut, active_connections, ws, inflight, received, reply,
          cancelled, removals, key_errors, value_errors, audience, deleted,
          listed>>

store_vars == <<jobs_file, io_ok, now>>
runner_vars == <<uuid_count, active_jobs, task, logo_fut, video_fut,
                 cancelled, removals, key_errors>>
hub_vars == <<active_connections, ws, inflight, received>>
call_vars == <<value_errors, deleted, listed>>

\* ------------------------------------------------------------- job store

isoformat(t) == ToString(t)          \* datetime.now().isoformat()

\* load_jobs(): the parsed file, or {"jobs": []} when it cannot be read.
load_jobs == IF io_ok THEN jobs_file ELSE <<>>

\* save_jobs(data): whether the write succeeded.
save_jobs_ret == io_ok

\* The file after save_jobs(data).
save_jobs(data) == IF io_ok THEN data ELSE jobs_file

new_job(job_id, prompt, job_type, user_id, t) ==
    [job_id |-> job_id, prompt |-> prompt, job_type |-> job_type,
     status |-> PENDING, logo_url |-> None, video_url |-> None,
     error_message |-> None, created_at |-> isoformat(t),
     started_at |-> None, completed_at |-> None, progress |-> 0,
     user_id |-> user_id]

\* Variant of create_job_data that drops the records already stored.
create_job_data_alone(data, job_id, prompt, job_type, user_id, t) ==
    <<new_job(job_id, prompt, job_type, user_id, t)>>

\* The in-memory collection create_job builds: the new record at the head.
create_job_data(data, job_id, prompt, job_type, user_id, t) ==
    <<new_job(job_id, prompt, job_type, user_id, t)>> \o data

\* Index of the first record with this id, 0 when there is none
\* (job_index == -1 in the source).
job_index(data, job_id) ==
    IF \E i \in 1..Len(data) : data[i].job_id = job_id
    THEN CHOOSE i \in 1..Len(data) :
            /\ data[i].job_id = job_id
            /\ \A k \in 1..(i - 1) : data[k].job_id # job_id
    ELSE 0

\* Variant of update_fields that never writes logo_url.
update_fields_no_logo(job, status, progress, logo_url, video_url, error_message) ==
    LET j1 == [job EXCEPT !.status = status]
        j2 == IF progress # NoProgress THEN [j1 EXCEPT !.progress = progress] ELSE j1
        j4 == IF video_url # None THEN [j2 EXCEPT !.video_url = video_url] ELSE j2
    IN  IF error_message # None
        THEN [j4 EXCEPT !.error_message = error_message] ELSE j4

\* Variant of update_fields that writes every field, given or not.
update_fields_overwrite(job, status, progress, logo_url, video_url, error_message) ==
    [job EXCEPT !.status = status,
                !.progress = IF progress # NoProgress THEN progress ELSE @,
                !.logo_url = logo_url,
                !.video_url = video_url,
                !.error_message = error_message]

\* update_job_status, "Update fields": the status always, the others when given.
update_fields(job, status, progress, logo_url, video_url, error_message) ==
    LET j1 == [job EXCEPT !.status = status]
        j2 == IF progress # NoProgress THEN [j1 EXCEPT !.progress = progress] ELSE j1
        j3 == IF logo_url # None THEN [j2 EXCEPT !.logo_url = logo_url] ELSE j2
        j4 == IF video_url # None THEN [j3 EXCEPT !.video_url = video_url] ELSE j3
    IN  IF error_message # None
        THEN [j4 EXCEPT !.error_message = error_message] ELSE j4

\* Variant of add_timestamps that resets the progress of an ended job.
add_timestamps_reset(job, status, progress, t) ==
    IF status = PROCESSING
    THEN [job EXCEPT !.started_at = isoformat(t)]
    ELSE IF status \in {COMPLETED, FAILED}
         THEN LET j1 == [job EXCEPT !.completed_at = isoformat(t)]
              IN  IF progress = NoProgress THEN [j1 EXCEPT !.progress = 0] ELSE j1
         ELSE job

\* update_job_status, "Add timestamps".
add_timestamps(job, status, progress, t) ==
    IF status = PROCESSING
    THEN [job EXCEPT !.started_at = isoformat(t)]
    ELSE IF status \in {COMPLETED, FAILED}
         THEN LET j1 == [job EXCEPT !.completed_at = isoformat(t)]
              IN  IF progress = NoProgress THEN [j1 EXCEPT !.progress = 100] ELSE j1
         ELSE job

\* The record update_job_status writes back for `job`.
updated_job(job, status, progress, logo_url, video_url, error_message, t) ==
    add_timestamps(update_fields(job, status, progress, logo_url, video_url,
                                 error_message),
                   status, progress, t)

\* Variant of update_job_data that inserts a record for an id it does not find.
update_job_data_upsert(data, job_id, status, progress, logo_url, video_url, error_message, t) ==
    LET i == job_index(data, job_id)
    IN  IF i = 0
        THEN <<updated_job(new_job(job_id, None, LOGO, None, t), status, progress,
                           logo_url, video_url, error_message, t)>> \o data
        ELSE [data EXCEPT ![i] = updated_job(data[i], status, progress, logo_url,
                                             video_url, error_message, t)]

\* update_job_status applied to a loaded collection: the collection it saves.
update_job_data(data, job_id, status, progress, logo_url, video_url, error_message, t) ==
    LET i == job_index(data, job_id)
    IN  IF i = 0 THEN data
        ELSE [data EXCEPT ![i] = updated_job(data[i], status, progress, logo_url,
                                             video_url, error_message, t)]

\* update_job_status as a function of the file content `file` (so that the
\* consecutive calls of one atomic step compose): the file afterwards.
update_job_status(file, job_id, status, progress, logo_url, video_url, error_message) ==
    IF io_ok
    THEN update_job_data(file, job_id, status, progress, logo_url, video_url,
                         error_message, now)
    ELSE file

\* Its return value.
update_job_status_ret(file, job_id) ==
    io_ok /\ job_index(file, job_id) # 0

\* get_job(job_id) finds a record / returns None.
HasJob(job_id) == job_index(load_jobs, job_id) # 0

\* The record get_job(job_id) returns when HasJob(job_id).
Rec(job_id) == load_jobs[job_index(load_jobs, job_id)]

\* The loop of get_user_jobs over `data` from index i on, with `user_jobs`
\* collected so far: the limit is tested after each append.
RECURSIVE get_user_jobs_loop(_, _, _, _, _)
get_user_jobs_loop(data, i, user_jobs, user_id, limit) ==
    IF i > Len(data) THEN user_jobs
    ELSE IF data[i].user_id = user_id
         THEN LET appended == Append(user_jobs, data[i])
              IN  IF Len(appended) >= limit THEN appended
                  ELSE get_user_jobs_loop(data, i + 1, appended, user_id, limit)
         ELSE get_user_jobs_loop(data, i + 1, user_jobs, user_id, limit)

\* The list get_user_jobs(user_id, limit) returns.
get_user_jobs_ret(user_id, limit) == get_user_jobs_loop(load_jobs, 1, <<>>, user_id, limit)

\* The list get_pending_jobs() returns.
get_pending_jobs == SelectSeq(load_jobs, LAMBDA job : job.status \in {PENDING, PROCESSING})

\* The collection delete_job saves: every record but those with this id.
delete_job_data(data, job_id) == SelectSeq(data, LAMBDA job : job.job_id # job_id)

\* The return value of delete_job: that of its save_jobs call.
delete_job_ret == save_jobs_ret

\* What is left of jobs.json by a save_jobs that is cut short: open(..., 'w')
\* has emptied the file and no complete document was written after it, so
\* json.load raises on it and load_jobs yields {"jobs": []}.
save_jobs_cut == <<>>

\* ------------------------------------------------------------ job runner

NoTask == [pc |-> "none", must_cancel |-> FALSE, generate_video |-> FALSE,
           prompt |-> None, logo_url |-> None, video_url |-> None]
NoFuture == [st |-> "none", val |-> None]
NoReply == [route |-> None, job_id |-> None, status |-> None]
NoListing == [called |-> FALSE, user_id |-> None, limit |-> 0, jobs |-> <<>>]

\* Variant of del_item that deletes nothing.
del_item_keep(d, k) == [dict |-> d, raised |-> FALSE]

\* Python `del d[k]`: the dict afterwards, and whether KeyError was raised.
del_item(d, k) ==
    [dict |-> [x \in DOMAIN d \ {k} |-> d[x]], raised |-> k \notin DOMAIN d]

\* Variant of cleanup that leaves the registry as it is.
cleanup_keep(d, k) == [dict |-> d, raised |-> FALSE]

\* Variant of cleanup without the membership guard.
cleanup_unguarded(d, k) == del_item(d, k)

\* The `finally` clause of _process_job.
cleanup(d, k) ==
    IF k \in DOMAIN d THEN del_item(d, k) ELSE [dict |-> d, raised |-> FALSE]

\* Variant of task_cancel that leaves the task running.
task_cancel_noop(t) == t

\* Task.cancel(): a task that is not done gets CancelledError thrown into it
\* at its next step; a done task is left alone.
task_cancel(t) ==
    IF t.pc \in {"finished", "cancelled"} THEN t ELSE [t EXCEPT !.must_cancel = TRUE]

\* Variant: CancelledError deriving from Exception, as before Python 3.8.
except_catches_cancelled_py37 == TRUE

\* Whether the `except Exception` clauses of _process_job catch the
\* CancelledError thrown at an await: not since Python 3.8, where it derives
\* from BaseException.
except_catches_cancelled == FALSE

\* Variant of logo_failure_message without the prefix.
logo_failure_bare(cause) == cause

\* The error message persisted for a failed logo backend call.
logo_failure_message(cause) == "Logo generation failed: " \o cause

\* Variant of is_active that skips the membership test.
is_active_always(job_id) == TRUE

\* `job_id in self.active_jobs`, the guard of cancel_job.
is_active(job_id) == job_id \in DOMAIN active_jobs

\* Variant of create_failed that ignores create_job's return value.
create_unchecked(ret) == FALSE

\* The condition under which start_generation_job raises "Failed to create job".
create_failed(ret) == ~ret

\* get_active_jobs_count(): len(self.active_jobs).
get_active_jobs_count == Cardinality(DOMAIN active_jobs)

\* Bookkeeping of one registry deletion by the task or by cancel_job.
Removed(job_id, res) ==
    /\ removals' = [removals EXCEPT ![job_id] =
                        @ + (IF job_id \in DOMAIN active_jobs /\ ~res.raised THEN 1 ELSE 0)]
    /\ key_errors' = IF res.raised THEN key_errors \cup {job_id} ELSE key_errors

\* ------------------------------------------------------ notification hub

WsId(n) == "ws_" \o ToString(n)
Observers == {WsId(n) : n \in 1..MaxObservers}

\* list.remove(x): the list without its first occurrence of x.
list_remove(l, x) ==
    LET i == CHOOSE i \in 1..Len(l) :
                 l[i] = x /\ \A k \in 1..(i - 1) : l[k] # x
    IN  SubSeq(l, 1, i - 1) \o SubSeq(l, i + 1, Len(l))

\* The `for connection in self.active_connections` loop of broadcast, entered
\* or resumed with `idx` elements consumed: the broadcast is over, or it
\* suspends in send_text to the next connection.
broadcast_loop(b, idx) ==
    IF idx < Len(active_connections)
    THEN /\ inflight' = (inflight \ {b}) \cup
                {[route |-> b.route, job_id |-> b.job_id, message |-> b.message,
                  conn |-> active_connections[idx + 1], idx |-> idx + 1]}
         /\ reply' = reply
    ELSE /\ inflight' = inflight \ {b}
         /\ reply' = [route |-> b.route, job_id |-> b.job_id, status |-> "200"]

\* manager.broadcast(message) called by the handler of `route`.
broadcast(route, job_id, message) ==
    broadcast_loop([route |-> route, job_id |-> job_id, message |-> message,
                    conn |-> None, idx |-> 0], 0)

\* websocket_endpoint: manager.connect accepts and registers the socket.
connect(o) ==
    /\ ws[o] = "new"
    /\ ws' = [ws EXCEPT ![o] = "open"]
    /\ active_connections' = Append(active_connections, o)
    /\ UNCHANGED <<inflight, received, reply>>
    /\ UNCHANGED <<store_vars, runner_vars>>
    /\ UNCHANGED <<audience, call_vars>>

\* The client of an accepted socket goes away.
client_close(o) ==
    /\ ws[o] = "open"
    /\ ws' = [ws EXCEPT ![o] = "closed"]
    /\ UNCHANGED <<active_connections, inflight, received, reply>>
    /\ UNCHANGED <<store_vars, runner_vars>>
    /\ UNCHANGED <<audience, call_vars>>

\* `x in l`: list.remove(x) raises ValueError when this is false.
list_contains(l, x) == \E i \in 1..Len(l) : l[i] = x

\* ConnectionManager.disconnect(websocket): the socket leaves the list, or
\* list.remove raises ValueError and the list stays as it was.
manager_disconnect(o) ==
    IF list_contains(active_connections, o)
    THEN /\ active_connections' = list_remove(active_connections, o)
         /\ UNCHANGED value_errors
    ELSE /\ value_errors' = value_errors \cup {o}
         /\ UNCHANGED active_connections

\* websocket_endpoint: receive_text raises WebSocketDisconnect, the handler
\* calls manager.disconnect.
disconnect(o) ==
    /\ ws[o] = "closed"
    /\ ws' = [ws EXCEPT ![o] = "gone"]
    /\ manager_disconnect(o)
    /\ UNCHANGED <<inflight, received, reply>>
    /\ UNCHANGED <<store_vars, runner_vars>>
    /\ UNCHANGED <<audience, deleted, listed>>

\* manager.disconnect called for any socket, registered or not.
call_disconnect(o) ==
    /\ manager_disconnect(o)
    /\ UNCHANGED <<ws, inflight, received, reply>>
    /\ UNCHANGED <<store_vars, runner_vars>>
    /\ UNCHANGED <<audience, deleted, listed>>

\* A suspended broadcast resumes: its send_text returns or raises.
broadcast_resume(b) ==
    /\ b \in inflight
    /\ IF ws[b.conn] = "open"
       THEN /\ received' = [received EXCEPT ![b.conn] = Append(@, b.message)]
            /\ broadcast_loop(b, b.idx)
       ELSE /\ inflight' = inflight \ {b}
            /\ reply' = [route |-> b.route, job_id |-> b.job_id, status |-> "500"]
            /\ UNCHANGED received
    /\ UNCHANGED <<active_connections, ws>>
    /\ UNCHANGED <<store_vars, runner_vars>>
    /\ UNCHANGED <<audience, call_vars>>

\* ------------------------------------------------------- request handlers

\* POST /api/generate-ad-async: JobManager.start_generation_job, then the
\* job_started broadcast.
generate_ad_async(prompt, generate_video, user_id) ==
    /\ uuid_count < MaxJobs
    /\ LET job_id == JobId(uuid_count + 1)
           job_type == IF generate_video THEN BOTH ELSE LOGO
           data == create_job_data(load_jobs, job_id, prompt, job_type, user_id, now)
       IN  /\ uuid_count' = uuid_count + 1
           /\ jobs_file' = save_jobs(data)
           /\ IF create_failed(save_jobs_ret)
              THEN /\ reply' = [route |-> "generate", job_id |-> None, status |-> "500"]
                   /\ UNCHANGED <<active_jobs, task, inflight, audience>>
              ELSE /\ task' = [task EXCEPT ![job_id] =
                                 [NoTask EXCEPT !.pc = "ready", !.prompt = prompt,
                                                !.generate_video = generate_video]]
                   /\ active_jobs' = [x \in DOMAIN active_jobs \cup {job_id} |->
                                        IF x = job_id
                                        THEN [task |-> job_id, prompt |-> prompt,
                                              generate_video |-> generate_video,
                                              user_id |-> user_id]
                                        ELSE active_jobs[x]]
                   /\ audience' = [audience EXCEPT ![job_id].generate =
                                       {active_connections[i] :
                                           i \in 1..Len(active_connections)}]
                   /\ broadcast("generate", job_id,
                                [type |-> "job_started", job_id |-> job_id,
                                 prompt |-> prompt, generate_video |-> generate_video])
    /\ UNCHANGED <<io_ok, now, logo_fut, video_fut, cancelled, removals, key_errors>>
    /\ UNCHANGED <<active_connections, ws, received>>
    /\ UNCHANGED call_vars

\* DELETE /api/job/{job_id}: JobManager.cancel_job, then the job_cancelled
\* broadcast, or 404.
cancel_job(job_id) ==
    /\ IF is_active(job_id)
       THEN LET res == del_item(active_jobs, job_id)
            IN  /\ task' = [task EXCEPT ![job_id] = task_cancel(@)]
                /\ active_jobs' = res.dict
                /\ Removed(job_id, res)
                /\ jobs_file' = update_job_status(jobs_file, job_id, FAILED, NoProgress,
                                                  None, None, "Job cancelled by user")
                /\ cancelled' = cancelled \cup {job_id}
                /\ audience' = [audience EXCEPT ![job_id].cancel =
                                    {active_connections[i] :
                                        i \in 1..Len(active_connections)}]
                /\ broadcast("cancel", job_id,
                             [type |-> "job_cancelled", job_id |-> job_id])
       ELSE /\ reply' = [route |-> "cancel", job_id |-> job_id, status |-> "404"]
            /\ UNCHANGED <<task, active_jobs, removals, key_errors, jobs_file,
                           cancelled, inflight, audience>>
    /\ UNCHANGED <<io_ok, now, uuid_count, logo_fut, video_fut>>
    /\ UNCHANGED <<active_connections, ws, received>>
    /\ UNCHANGED call_vars

\* ------------------------------------------------- background pipeline

\* The `finally` clause, run as the coroutine of _process_job ends.
process_job_finally(job_id) ==
    LET res == cleanup(active_jobs, job_id)
    IN  /\ active_jobs' = res.dict
        /\ Removed(job_id, res)

\* _process_job from its start to the await of the logo backend.
process_job_start(job_id) ==
    /\ task[job_id].pc = "ready"
    /\ ~task[job_id].must_cancel
    /\ LET f1 == update_job_status(jobs_file, job_id, PROCESSING, 10, None, None, None)
           f2 == update_job_status(f1, job_id, PROCESSING, 30, None, None, None)
       IN  jobs_file' = f2
    /\ logo_fut' = [logo_fut EXCEPT ![job_id] = [st |-> "running", val |-> None]]
    /\ task' = [task EXCEPT ![job_id].pc = "await_logo"]
    /\ UNCHANGED <<io_ok, now, uuid_count, active_jobs, video_fut, cancelled,
                   removals, key_errors, reply>>
    /\ UNCHANGED hub_vars
    /\ UNCHANGED <<audience, call_vars>>

\* generate_logo returns or raises on its executor thread.
generate_logo(job_id) ==
    /\ logo_fut[job_id].st = "running"
    /\ \/ \E u \in LogoResults :
            logo_fut' = [logo_fut EXCEPT ![job_id] = [st |-> "done", val |-> u]]
       \/ \E c \in LogoCauses :
            logo_fut' = [logo_fut EXCEPT ![job_id] = [st |-> "failed", val |-> c]]
    /\ UNCHANGED <<jobs_file, io_ok, now, reply>>
    /\ UNCHANGED <<uuid_count, active_jobs, task, video_fut, cancelled, removals,
                   key_errors>>
    /\ UNCHANGED hub_vars
    /\ UNCHANGED <<audience, call_vars>>

\* _process_job resumed with the outcome of the logo backend: up to the await
\* of the video backend, or to its end.
process_job_logo(job_id) ==
    /\ task[job_id].pc = "await_logo"
    /\ ~task[job_id].must_cancel
    /\ logo_fut[job_id].st \in {"done", "failed"}
    /\ IF logo_fut[job_id].st = "failed"
       THEN /\ jobs_file' = update_job_status(jobs_file, job_id, FAILED, NoProgress,
                                None, None,
                                logo_failure_message(logo_fut[job_id].val))
            /\ task' = [task EXCEPT ![job_id].pc = "finished"]
            /\ process_job_finally(job_id)
            /\ UNCHANGED video_fut
       ELSE LET logo_url == logo_fut[job_id].val
                f1 == update_job_status(jobs_file, job_id, PROCESSING, 60,
                                        logo_url, None, None)
            IN  IF task[job_id].generate_video
                THEN /\ jobs_file' = update_job_status(f1, job_id, PROCESSING, 70,
                                                       None, None, None)
                     /\ video_fut' = [video_fut EXCEPT ![job_id] =
                                         [st |-> "running", val |-> None]]
                     /\ task' = [task EXCEPT ![job_id].pc = "await_video",
                                             ![job_id].logo_url = logo_url]
                     /\ UNCHANGED <<active_jobs, removals, key_errors>>
                ELSE /\ jobs_file' = update_job_status(f1, job_id, COMPLETED, 100,
                                                       logo_url, None, None)
                     /\ task' = [task EXCEPT ![job_id].pc = "finished",
                                             ![job_id].logo_url = logo_url]
                     /\ process_job_finally(job_id)
                     /\ UNCHANGED video_fut
    /\ UNCHANGED <<io_ok, now, uuid_count, logo_fut, cancelled, reply>>
    /\ UNCHANGED hub_vars
    /\ UNCHANGED <<audience, call_vars>>

\* generate_ad_video returns or raises on its executor thread.
generate_ad_video(job_id) ==
    /\ video_fut[job_id].st = "running"
    /\ \/ \E u \in VideoResults :
            video_fut' = [video_fut EXCEPT ![job_id] = [st |-> "done", val |-> u]]
       \/ \E c \in VideoCauses :
            video_fut' = [video_fut EXCEPT ![job_id] = [st |-> "failed", val |-> c]]
    /\ UNCHANGED <<jobs_file, io_ok, now, reply>>
    /\ UNCHANGED <<uuid_count, active_jobs, task, logo_fut, cancelled, removals,
                   key_errors>>
    /\ UNCHANGED hub_vars
    /\ UNCHANGED <<audience, call_vars>>

\* _process_job resumed with the outcome of the video backend, to its end.
process_job_video(job_id) ==
    /\ task[job_id].pc = "await_video"
    /\ ~task[job_id].must_cancel
    /\ video_fut[job_id].st \in {"done", "failed"}
    /\ LET logo_url == task[job_id].logo_url
           video_url == IF video_fut[job_id].st = "done"
                        THEN video_fut[job_id].val ELSE None
           f1 == IF video_fut[job_id].st = "done"
                 THEN update_job_status(jobs_file, job_id, PROCESSING, 90,
                                        logo_url, video_url, None)
                 ELSE jobs_file
       IN  /\ jobs_file' = update_job_status(f1, job_id, COMPLETED, 100,
                                             logo_url, video_url, None)
           /\ task' = [task EXCEPT ![job_id].pc = "finished",
                                   ![job_id].video_url = video_url]
    /\ process_job_finally(job_id)
    /\ UNCHANGED <<io_ok, now, uuid_count, logo_fut, video_fut, cancelled, reply>>
    /\ UNCHANGED hub_vars
    /\ UNCHANGED <<audience, call_vars>>

\* The cancelled task's next step: CancelledError is thrown into the
\* coroutine.  Thrown before its first step, no line of it runs.  Thrown at an
\* await, it passes every `except Exception` clause and only the `finally`
\* clause runs; were it caught there, the handler of the stage would run and
\* the coroutine would go on from it.
process_job_cancelled(job_id) ==
    /\ task[job_id].pc \in {"ready", "await_logo", "await_video"}
    /\ task[job_id].must_cancel
    /\ IF task[job_id].pc = "ready"
       THEN /\ task' = [task EXCEPT ![job_id].pc = "cancelled"]
            /\ UNCHANGED <<jobs_file, active_jobs, removals, key_errors>>
       ELSE IF ~except_catches_cancelled
       THEN /\ task' = [task EXCEPT ![job_id].pc = "cancelled"]
            /\ process_job_finally(job_id)
            /\ UNCHANGED jobs_file
       ELSE /\ task' = [task EXCEPT ![job_id].pc = "finished"]
            /\ process_job_finally(job_id)
            /\ jobs_file' =
                  IF task[job_id].pc = "await_logo"
                  THEN update_job_status(jobs_file, job_id, FAILED, NoProgress,
                                         None, None, logo_failure_message(""))
                  ELSE update_job_status(jobs_file, job_id, COMPLETED, 100,
                                         task[job_id].logo_url, None, None)
    /\ UNCHANGED <<io_ok, now, uuid_count, logo_fut, video_fut, cancelled, reply>>
    /\ UNCHANGED hub_vars
    /\ UNCHANGED <<audience, call_vars>>

\* ------------------------------------------------------- the file system

\* jobs.json stops being readable and writable (open() raises).
io_fail ==
    /\ io_ok
    /\ io_ok' = FALSE
    /\ UNCHANGED <<jobs_file, now, reply>>
    /\ UNCHANGED <<runner_vars, hub_vars>>
    /\ UNCHANGED <<audience, call_vars>>

\* jobs.json is served again.
io_restore ==
    /\ ~io_ok
    /\ io_ok' = TRUE
    /\ UNCHANGED <<jobs_file, now, reply>>
    /\ UNCHANGED <<runner_vars, hub_vars>>
    /\ UNCHANGED <<audience, call_vars>>

\* ------------------------------------------------------------ the process

\* The server process ends and is started again: the module-level
\* JobManager() and ConnectionManager() are built anew, the tasks, the
\* executor calls and the sockets of the old process are gone, jobs.json stays.
restart ==
    /\ active_jobs' = <<>>
    /\ task' = [j \in JobIds |->
                  IF task[j].pc \in {"ready", "await_logo", "await_video"}
                  THEN [task[j] EXCEPT !.pc = "killed"] ELSE task[j]]
    /\ logo_fut' = [j \in JobIds |->
                      IF logo_fut[j].st = "running" THEN NoFuture ELSE logo_fut[j]]
    /\ video_fut' = [j \in JobIds |->
                       IF video_fut[j].st = "running" THEN NoFuture ELSE video_fut[j]]
    /\ active_connections' = <<>>
    /\ ws' = [o \in Observers |-> IF ws[o] \in {"open", "closed"} THEN "gone" ELSE ws[o]]
    /\ inflight' = {}
    /\ UNCHANGED <<store_vars, uuid_count, cancelled, removals, key_errors,
                   received, reply>>
    /\ UNCHANGED <<audience, call_vars>>

\* ------------------------------------------------------ direct store calls

\* Arguments a caller may pass to the store.
Owners == {"default", "alice"}
LimitArgs == 0..MaxJobs
ProgressArgs == {NoProgress, 50}
LogoArgs == {None} \cup LogoResults
VideoArgs == {None} \cup VideoResults
ErrorArgs == {None, "boom"}

\* create_job called with a fresh id; the clock has moved on by the next call.
create_job(prompt, job_type, user_id) ==
    /\ now < MaxTime
    /\ now' = now + 1
    /\ uuid_count < MaxJobs
    /\ uuid_count' = uuid_count + 1
    /\ jobs_file' = save_jobs(create_job_data(load_jobs, JobId(uuid_count + 1),
                                              prompt, job_type, user_id, now))
    /\ UNCHANGED <<io_ok, reply>>
    /\ UNCHANGED <<active_jobs, task, logo_fut, video_fut, cancelled, removals,
                   key_errors>>
    /\ UNCHANGED hub_vars
    /\ UNCHANGED <<audience, call_vars>>

\* update_job_status called with arbitrary arguments.
update_job(job_id, status, progress, logo_url, video_url, error_message) ==
    /\ now < MaxTime
    /\ now' = now + 1
    /\ jobs_file' = update_job_status(jobs_file, job_id, status, progress,
                                      logo_url, video_url, error_message)
    /\ UNCHANGED <<io_ok, reply>>
    /\ UNCHANGED <<runner_vars, hub_vars>>
    /\ UNCHANGED <<audience, call_vars>>

\* delete_job called with any id.
delete_job(job_id) ==
    /\ jobs_file' = save_jobs(delete_job_data(load_jobs, job_id))
    /\ deleted' = IF delete_job_ret THEN deleted \cup {job_id} ELSE deleted
    /\ UNCHANGED <<io_ok, now, reply>>
    /\ UNCHANGED <<runner_vars, hub_vars>>
    /\ UNCHANGED <<audience, value_errors, listed>>

\* get_user_jobs called with any owner and limit.
get_user_jobs(user_id, limit) ==
    /\ listed' = [called |-> TRUE, user_id |-> user_id, limit |-> limit,
                  jobs |-> get_user_jobs_ret(user_id, limit)]
    /\ UNCHANGED <<store_vars, reply>>
    /\ UNCHANGED <<runner_vars, hub_vars>>
    /\ UNCHANGED <<audience, value_errors, deleted>>

\* create_job whose save_jobs is cut short (the process is killed or the
\* write raises after the file was opened for writing).
create_job_cut(prompt, job_type, user_id) ==
    /\ now < MaxTime
    /\ now' = now + 1
    /\ uuid_count < MaxJobs
    /\ uuid_count' = uuid_count + 1
    /\ io_ok
    /\ jobs_file' = save_jobs_cut
    /\ UNCHANGED <<io_ok, reply>>
    /\ UNCHANGED <<active_jobs, task, logo_fut, video_fut, cancelled, removals,
                   key_errors>>
    /\ UNCHANGED hub_vars
    /\ UNCHANGED <<audience, call_vars>>

\* update_job_status whose save_jobs is cut short; it saves only when it has
\* found the record.
update_job_cut(job_id, status, progress, logo_url, video_url, error_message) ==
    /\ now < MaxTime
    /\ now' = now + 1
    /\ io_ok
    /\ job_index(load_jobs, job_id) # 0
    /\ jobs_file' = save_jobs_cut
    /\ UNCHANGED <<io_ok, reply>>
    /\ UNCHANGED <<runner_vars, hub_vars>>
    /\ UNCHANGED <<audience, call_vars>>

\* delete_job whose save_jobs is cut short.
delete_job_cut(job_id) ==
    /\ io_ok
    /\ jobs_file' = save_jobs_cut
    /\ UNCHANGED <<io_ok, now, reply>>
    /\ UNCHANGED <<runner_vars, hub_vars>>
    /\ UNCHANGED <<audience, call_vars>>

\* -------------------------------------------------------- specifications

Init ==
    /\ jobs_file = <<>>
    /\ io_ok = TRUE
    /\ now = 0
    /\ uuid_count = 0
    /\ active_jobs = <<>>
    /\ task = [j \in JobIds |-> NoTask]
    /\ logo_fut = [j \in JobIds |-> NoFuture]
    /\ video_fut = [j \in JobIds |-> NoFuture]
    /\ active_connections = <<>>
    /\ ws = [o \in Observers |-> "new"]
    /\ inflight = {}
    /\ received = [o \in Observers |-> <<>>]
    /\ reply = NoReply
    /\ cancelled = {}
    /\ removals = [j \in JobIds |-> 0]
    /\ key_errors = {}
    /\ value_errors = {}
    /\ audience = [j \in JobIds |-> [generate |-> {}, cancel |-> {}]]
    /\ deleted = {}
    /\ listed = NoListing

\* The job runner: start requests, the pipelines, their backends and cancel
\* requests, over a store whose file I/O succeeds, with no observer connected
\* and within one reading of the clock.
Next ==
    \/ \E p \in Prompts, g \in BOOLEAN, u \in Users : generate_ad_async(p, g, u)
    \/ \E j \in JobIds : process_job_start(j)
    \/ \E j \in JobIds : generate_logo(j)
    \/ \E j \in JobIds : process_job_logo(j)
    \/ \E j \in JobIds : generate_ad_video(j)
    \/ \E j \in JobIds : process_job_video(j)
    \/ \E j \in JobIds : process_job_cancelled(j)
    \/ \E j \in JobIds : cancel_job(j)

Spec == Init /\ [][Next]_vars

\* The job runner with the steps the event loop and the executor are bound
\* to take: a task that can run is run, a backend call returns or raises.
\* Start and cancel requests are up to the clients.
Fairness ==
    \A j \in JobIds :
        /\ WF_vars(process_job_start(j))
        /\ WF_vars(generate_logo(j))
        /\ WF_vars(process_job_logo(j))
        /\ WF_vars(generate_ad_video(j))
        /\ WF_vars(process_job_video(j))
        /\ WF_vars(process_job_cancelled(j))

NextLive ==
    \/ \E p \in Prompts, g \in BOOLEAN, u \in Users :
          uuid_count < MaxLiveJobs /\ generate_ad_async(p, g, u)
    \/ \E j \in JobIds : process_job_start(j)
    \/ \E j \in JobIds : generate_logo(j)
    \/ \E j \in JobIds : process_job_logo(j)
    \/ \E j \in JobIds : generate_ad_video(j)
    \/ \E j \in JobIds : process_job_video(j)
    \/ \E j \in JobIds : process_job_cancelled(j)
    \/ \E j \in JobIds : cancel_job(j)

SpecLive == Init /\ [][NextLive]_vars /\ Fairness

\* The job runner across restarts of the server process.
NextRestart ==
    \/ Next
    \/ restart

SpecRestart == Init /\ [][NextRestart]_vars

\* The job runner over a file system that may fail.
NextFault ==
    \/ io_fail
    \/ io_restore
    \/ \E p \in Prompts, g \in BOOLEAN, u \in Users :
          uuid_count < MaxFaultJobs /\ generate_ad_async(p, g, u)
    \/ \E j \in JobIds : process_job_start(j)
    \/ \E j \in JobIds : generate_logo(j)
    \/ \E j \in JobIds : process_job_logo(j)
    \/ \E j \in JobIds : generate_ad_video(j)
    \/ \E j \in JobIds : process_job_video(j)
    \/ \E j \in JobIds : process_job_cancelled(j)
    \/ \E j \in JobIds : cancel_job(j)

SpecFault == Init /\ [][NextFault]_vars

\* The job store called directly, each call at a later clock reading.
NextStore ==
    \/ \E p \in Prompts, t \in {LOGO, BOTH}, u \in Users : create_job(p, t, u)
    \/ \E j \in JobIds, st \in JobStatus, pr \in ProgressArgs, l \in LogoArgs,
          v \in VideoArgs, e \in ErrorArgs : update_job(j, st, pr, l, v, e)
    \/ \E j \in JobIds : delete_job(j)

SpecStore == Init /\ [][NextStore]_vars

\* Jobs of several owners created and listed.
NextList ==
    \/ \E p \in Prompts, t \in {LOGO, BOTH}, u \in Owners : create_job(p, t, u)
    \/ \E u \in Owners, limit \in LimitArgs : get_user_jobs(u, limit)

SpecList == Init /\ [][NextList]_vars

\* The job store called directly, with writes that may be cut short.
NextCut ==
    \/ \E p \in Prompts, t \in {LOGO, BOTH}, u \in Users : create_job(p, t, u)
    \/ \E j \in JobIds, st \in JobStatus, pr \in ProgressArgs, l \in LogoArgs,
          v \in VideoArgs, e \in ErrorArgs : update_job(j, st, pr, l, v, e)
    \/ \E j \in JobIds : delete_job(j)
    \/ \E p \in Prompts, t \in {LOGO, BOTH}, u \in Users : create_job_cut(p, t, u)
    \/ \E j \in JobIds, st \in JobStatus, pr \in ProgressArgs, l \in LogoArgs,
          v \in VideoArgs, e \in ErrorArgs : update_job_cut(j, st, pr, l, v, e)
    \/ \E j \in JobIds : delete_job_cut(j)

SpecCut == Init /\ [][NextCut]_vars

\* The job runner while a client deletes jobs whose ids it was given.
NextDelete ==
    \/ \E p \in Prompts, g \in BOOLEAN, u \in Users :
          uuid_count < MaxDeleteJobs /\ generate_ad_async(p, g, u)
    \/ \E j \in JobIds : process_job_start(j)
    \/ \E j \in JobIds : generate_logo(j)
    \/ \E j \in JobIds : process_job_logo(j)
    \/ \E j \in JobIds : generate_ad_video(j)
    \/ \E j \in JobIds : process_job_video(j)
    \/ \E j \in JobIds : process_job_cancelled(j)
    \/ \E j \in JobIds : cancel_job(j)
    \/ \E n \in 1..uuid_count : delete_job(JobId(n))

SpecDelete == Init /\ [][NextDelete]_vars

\* The notification hub: observers come and go while the request handlers
\* broadcast.
NextHub ==
    \/ \E o \in Observers : connect(o)
    \/ \E o \in Observers : client_close(o)
    \/ \E o \in Observers : disconnect(o)
    \/ \E b \in inflight : broadcast_resume(b)
    \/ \E p \in Prompts, g \in BOOLEAN, u \in Users :
          uuid_count < MaxHubJobs /\ generate_ad_async(p, g, u)
    \/ \E j \in JobIds : cancel_job(j)

SpecHub == Init /\ [][NextHub]_vars

\* The notification hub with manager.disconnect also called directly.
NextUnregister ==
    \/ \E o \in Observers : connect(o)
    \/ \E o \in Observers : client_close(o)
    \/ \E o \in Observers : disconnect(o)
    \/ \E o \in Observers : call_disconnect(o)
    \/ \E b \in inflight : broadcast_resume(b)
    \/ \E p \in Prompts, g \in BOOLEAN, u \in Users :
          uuid_count < MaxHubJobs /\ generate_ad_async(p, g, u)

SpecUnregister == Init /\ [][NextUnregister]_vars

\* ---------------------------------------------------------------- claims

Terminal(st) == st \in {COMPLETED, FAILED}
Rank(st) == IF st = PENDING THEN 0 ELSE IF st = PROCESSING THEN 1 ELSE 2
Started(j) == task[j].pc # "none"
Ended(j) == task[j].pc \in {"finished", "cancelled"}

\* C1: under every interleaving of start requests, pipeline steps and cancel
\* requests, a persisted record stays, its status never moves backwards along
\* pending -> processing -> {completed, failed}, and a completed or failed
\* status never changes again.
C1_StatusOnlyForward ==
    [][\A j \in JobIds :
          HasJob(j) =>
             /\ HasJob(j)'
             /\ Rank(Rec(j).status') >= Rank(Rec(j).status)
             /\ (Terminal(Rec(j).status) => Rec(j).status' = Rec(j).status)]_vars

\* A job cancelled while its logo result was already available, whose task has
\* since taken its last step.
C1_Witness ==
    \E j \in JobIds :
        /\ HasJob(j) /\ Rec(j).status = FAILED
        /\ j \in cancelled
        /\ task[j].pc = "cancelled"
        /\ logo_fut[j].st = "done"

\* C2: update_job_status on a record whose completed_at is set changes no
\* field of that record, whatever its arguments.
C2_TerminalRecordUntouched ==
    [][\A j \in JobIds :
          (HasJob(j) /\ Rec(j).completed_at # None) => Rec(j)' = Rec(j)]_vars

\* C3: once cancel_job has returned True for a job, its persisted status is
\* never completed, and its record never changes again: a backend result that
\* arrives afterwards is not persisted.
C3_CancelledNeverCompleted ==
    /\ [](\A j \in cancelled : HasJob(j) => Rec(j).status # COMPLETED)
    /\ [][\A j \in cancelled : HasJob(j) => Rec(j)' = Rec(j)]_vars

\* A job cancelled while waiting on the video backend, whose result arrived
\* afterwards and whose task has taken its last step.
C3_Witness ==
    \E j \in cancelled :
        /\ video_fut[j].st = "done"
        /\ task[j].pc = "cancelled"
        /\ Rec(j).video_url = None

C5_CancelInactiveNoOp ==
    [][\A j \in JobIds :
          (j \notin DOMAIN active_jobs /\ cancel_job(j)) =>
             /\ reply' = [route |-> "cancel", job_id |-> j, status |-> "404"]
             /\ UNCHANGED <<jobs_file, active_jobs, task, cancelled,
                            inflight, received>>]_vars

\* A cancel request answered 404 for a job that had completed, while another
\* id is still unknown.
C5_Witness ==
    /\ reply.route = "cancel" /\ reply.status = "404"
    /\ HasJob(reply.job_id) /\ Rec(reply.job_id).status = COMPLETED
    /\ uuid_count < MaxJobs

\* C6: however a started job ends, it leaves the registry exactly once: no
\* deletion raises KeyError, an id in the registry has never been deleted, and
\* an id that left it was deleted once, by its own task's end or its own cancel.
C6_RemovedExactlyOnce ==
    /\ key_errors = {}
    /\ \A j \in JobIds :
          /\ (j \in DOMAIN active_jobs => Started(j) /\ removals[j] = 0)
          /\ (Started(j) /\ j \notin DOMAIN active_jobs =>
                 removals[j] = 1 /\ (Ended(j) \/ j \in cancelled))
          /\ (Ended(j) \/ j \in cancelled => j \notin DOMAIN active_jobs)

\* A job cancelled before the first step of its pipeline, whose task has ended
\* without running, while another job is in the registry.
C6_Witness ==
    \E j \in JobIds :
        /\ task[j].pc = "cancelled"
        /\ logo_fut[j].st = "none"
        /\ removals[j] = 1
        /\ DOMAIN active_jobs # {}

\* C7: when create_job returns False, the start request is answered with an
\* error, no task is launched, the registry is unchanged and no broadcast
\* starts.
C7_FailedCreateLaunchesNothing ==
    [][\A p \in Prompts, g \in BOOLEAN, u \in Users :
          (generate_ad_async(p, g, u) /\ ~save_jobs_ret) =>
             /\ reply' = [route |-> "generate", job_id |-> None, status |-> "500"]
             /\ task' = task
             /\ active_jobs' = active_jobs
             /\ inflight' = inflight]_vars

\* A start request answered 500 after the file system came back: the id drawn
\* for it has no task, no registry entry and no record.
C7_Witness ==
    /\ reply = [route |-> "generate", job_id |-> None, status |-> "500"]
    /\ io_ok
    /\ uuid_count > 0
    /\ task[JobId(uuid_count)].pc = "none"
    /\ JobId(uuid_count) \notin DOMAIN active_jobs
    /\ ~HasJob(JobId(uuid_count))

\* C8: a job that is never cancelled and whose logo backend returned u ends
\* completed with progress 100 and logo_url u; its video_url is the video
\* backend's result when a video was requested and that call succeeded, and
\* unset otherwise.
C8_PartialSuccess ==
    \A j \in JobIds :
        (task[j].pc = "finished" /\ logo_fut[j].st = "done") =>
           /\ HasJob(j)
           /\ Rec(j).status = COMPLETED
           /\ Rec(j).progress = 100
           /\ Rec(j).logo_url = logo_fut[j].val
           /\ Rec(j).video_url =
                 (IF task[j].generate_video /\ video_fut[j].st = "done"
                  THEN video_fut[j].val ELSE None)

\* A job with a video requested whose video backend failed, ended.
C8_Witness ==
    \E j \in JobIds :
        /\ task[j].pc = "finished"
        /\ task[j].generate_video
        /\ video_fut[j].st = "failed"
        /\ Rec(j).status = COMPLETED
        /\ Rec(j).video_url = None

\* C9 as claimed: when the logo backend call has failed and the job's task has
\* ended, the record is failed with error_message
\* "logo generation failed: <cause>", no asset is set and the video backend was
\* never invoked.
C9_LogoFailureFinalState ==
    \A j \in JobIds :
        (Ended(j) /\ logo_fut[j].st = "failed") =>
           /\ Rec(j).status = FAILED
           /\ Rec(j).error_message = "logo generation failed: " \o logo_fut[j].val
           /\ Rec(j).logo_url = None
           /\ Rec(j).video_url = None
           /\ video_fut[j].st = "none"

\* C9 as amended: when the logo backend call has failed and the pipeline has
\* handled the failure (the job was not cancelled first), the record is failed
\* with error_message "Logo generation failed: <cause>", no asset is set and
\* the video backend was never invoked.
C9_LogoFailureHandled ==
    \A j \in JobIds :
        (task[j].pc = "finished" /\ logo_fut[j].st = "failed") =>
           /\ Rec(j).status = FAILED
           /\ Rec(j).error_message = "Logo generation failed: " \o logo_fut[j].val
           /\ Rec(j).logo_url = None
           /\ Rec(j).video_url = None
           /\ video_fut[j].st = "none"

\* A job with a video requested whose logo backend failed, ended.
C9_Witness ==
    \E j \in JobIds :
        /\ task[j].pc = "finished"
        /\ task[j].generate_video
        /\ logo_fut[j].st = "failed"
        /\ Rec(j).status = FAILED

\* Whether message m has been delivered to observer o.
Delivered(o, m) == \E i \in 1..Len(received[o]) : received[o][i] = m

\* C10: when a broadcast fails to deliver to one observer, that observer is
\* unregistered and every other registered observer still gets the event (it
\* has it by then, or the broadcast goes on).
C10_BroadcastSurvivesFailure ==
    [][\A b \in inflight :
          (broadcast_resume(b) /\ ws[b.conn] # "open") =>
             /\ \A i \in 1..Len(active_connections') :
                   active_connections'[i] # b.conn
             /\ \A i \in 1..Len(active_connections) :
                   active_connections[i] # b.conn =>
                      \/ Delivered(active_connections[i], b.message)'
                      \/ \E c \in inflight' :
                            c.route = b.route /\ c.job_id = b.job_id]_vars

\* C11: manager.disconnect for a socket that is not in active_connections
\* (never registered, or already removed) raises nothing and leaves the list
\* as it was.
C11_UnregisterAbsentIsSafe ==
    [][\A o \in Observers :
          (~list_contains(active_connections, o)
             /\ (call_disconnect(o) \/ disconnect(o))) =>
             /\ value_errors' = value_errors
             /\ active_connections' = active_connections]_vars

\* The job_cancelled event of job j.
JobCancelled(j) == [type |-> "job_cancelled", job_id |-> j]

\* Whether the broadcast started by the cancel request for j is under way.
CancelBroadcasting(j) == \E b \in inflight : b.route = "cancel" /\ b.job_id = j

\* C12: once the broadcast of a successful cancel request is over, every
\* observer that was registered when the cancel succeeded (and whose transport
\* is still open) has been sent the job_cancelled event of that job; and no
\* job_cancelled event is sent for a job whose cancel did not succeed.
C12_CancelIsBroadcast ==
    /\ \A j \in cancelled :
          ~CancelBroadcasting(j) =>
             \A o \in audience[j].cancel : ws[o] = "open" => Delivered(o, JobCancelled(j))
    /\ \A j \in JobIds \ cancelled :
          /\ ~CancelBroadcasting(j)
          /\ \A o \in Observers : ~Delivered(o, JobCancelled(j))

\* C13: delete_job for an id that has no record returns False and leaves
\* jobs.json as it was.
C13_DeleteUnknownReturnsFalse ==
    [][\A j \in JobIds :
          (delete_job(j) /\ ~HasJob(j)) =>
             /\ ~delete_job_ret
             /\ jobs_file' = jobs_file]_vars

\* C14: once delete_job has returned True for a job, get_job finds no record
\* of it and update_job_status returns False for it, whatever updates its
\* pipeline and cancel requests have issued since.
C14_DeletionIrreversible ==
    \A j \in deleted : ~HasJob(j) /\ ~update_job_status_ret(jobs_file, j)

\* A deleted job whose pipeline has run to its end with both backends
\* succeeding, so that every update of the pipeline was issued.
C14_Witness ==
    \E j \in deleted :
        /\ task[j].pc = "finished"
        /\ logo_fut[j].st = "done"
        /\ video_fut[j].st = "done"
        /\ ~HasJob(j)

\* The ids drawn by the start requests so far.
Issued == {JobId(n) : n \in 1..uuid_count}

\* The status and progress of the latest update issued for job j, by its
\* pipeline or by its cancel request.
LatestStatus(j) ==
    IF j \in cancelled THEN FAILED
    ELSE IF task[j].pc = "ready" THEN PENDING
    ELSE IF task[j].pc \in {"await_logo", "await_video"} THEN PROCESSING
    ELSE IF logo_fut[j].st = "failed" THEN FAILED ELSE COMPLETED
LatestProgress(j) ==
    IF j \in cancelled THEN 100
    ELSE IF task[j].pc = "ready" THEN 0
    ELSE IF task[j].pc = "await_logo" THEN 30
    ELSE IF task[j].pc = "await_video" THEN 70
    ELSE 100

\* C15: under every interleaving of start requests, pipeline steps and cancel
\* requests, the store holds one record per id drawn, get_pending_jobs lists
\* every job whose latest update is not terminal, and every record shows the
\* status and progress of the latest update issued for its job.
C15_NoLostWrite ==
    /\ Len(load_jobs) = uuid_count
    /\ \A j \in Issued :
          /\ Cardinality({i \in 1..Len(load_jobs) : load_jobs[i].job_id = j}) = 1
          /\ Rec(j).status = LatestStatus(j)
          /\ Rec(j).progress = LatestProgress(j)
          /\ ~Terminal(LatestStatus(j)) =>
                \E i \in 1..Len(get_pending_jobs) : get_pending_jobs[i].job_id = j

\* Two jobs in flight at once, one waiting on the logo backend and one on
\* the video backend.
C15_Witness ==
    \E j, k \in Issued :
        /\ task[j].pc = "await_logo" /\ j \notin cancelled
        /\ task[k].pc = "await_video" /\ k \notin cancelled
        /\ Len(get_pending_jobs) = 2

\* C16: a store write that is cut short leaves a file that reads as the
\* complete collection from before the write or as the complete collection
\* the write was saving.
C16_AtomicReplace ==
    [][/\ \A p \in Prompts, t \in {LOGO, BOTH}, u \in Users :
             create_job_cut(p, t, u) =>
                load_jobs' \in {load_jobs,
                                create_job_data(load_jobs, JobId(uuid_count + 1),
                                                p, t, u, now)}
       /\ \A j \in JobIds, st \in JobStatus, pr \in ProgressArgs, l \in LogoArgs,
             v \in VideoArgs, e \in ErrorArgs :
             update_job_cut(j, st, pr, l, v, e) =>
                load_jobs' \in {load_jobs,
                                update_job_data(load_jobs, j, st, pr, l, v, e, now)}
       /\ \A j \in JobIds :
             delete_job_cut(j) =>
                load_jobs' \in {load_jobs, delete_job_data(load_jobs, j)}]_vars

\* C17: an update_job_status call with status processing on a record that is
\* already processing leaves started_at as it was; completed_at is stamped,
\* with progress forced to 100 when none is given, by the calls with status
\* completed or failed and by no other call.
C17_StartedAtStampedOnce ==
    [][\A j \in JobIds, st \in JobStatus, pr \in ProgressArgs, l \in LogoArgs,
          v \in VideoArgs, e \in ErrorArgs :
          (HasJob(j) /\ update_job(j, st, pr, l, v, e)) =>
             /\ (st = PROCESSING /\ Rec(j).status = PROCESSING) =>
                   Rec(j).started_at' = Rec(j).started_at
             /\ Terminal(st) =>
                   /\ Rec(j).completed_at' = isoformat(now)
                   /\ pr = NoProgress => Rec(j).progress' = 100
             /\ ~Terminal(st) => Rec(j).completed_at' = Rec(j).completed_at]_vars

\* The smaller of two numbers.
Min(a, b) == IF a < b THEN a ELSE b

\* C18: get_user_jobs(user_id, limit) returns at most `limit` records: the
\* first min(limit, n) of the n records of that owner, in the order of the
\* store, which is most recently created first.
C18_ListByOwner ==
    [][\A u \in Owners, limit \in LimitArgs :
          get_user_jobs(u, limit) =>
             LET mine == SelectSeq(load_jobs, LAMBDA job : job.user_id = u)
             IN  /\ Len(listed'.jobs) <= limit
                 /\ listed'.jobs = SubSeq(mine, 1, Min(limit, Len(mine)))
                 /\ \A i \in 1..Len(load_jobs) :
                       load_jobs[i].job_id = JobId(Len(load_jobs) - i + 1)]_vars

\* C19: the persisted progress of a job is always in 0..100 and never
\* decreases, on every path of the pipeline and with a cancel request at any
\* point.
C19_ProgressMonotone ==
    /\ [](\A j \in JobIds : HasJob(j) => Rec(j).progress \in 0..100)
    /\ [][\A j \in JobIds :
             HasJob(j) => HasJob(j)' /\ Rec(j).progress' >= Rec(j).progress]_vars

\* A job cancelled while waiting on the video backend, whose call failed
\* afterwards, next to a job whose logo backend failed.
C19_Witness ==
    \E j, k \in JobIds :
        /\ j \in cancelled /\ video_fut[j].st = "failed"
        /\ HasJob(j) /\ Rec(j).progress = 100
        /\ k \notin cancelled /\ task[k].pc = "finished" /\ logo_fut[k].st = "failed"
        /\ HasJob(k) /\ Rec(k).progress = 100

\* C20: an update that passes no logo_url (video_url) leaves the stored one
\* as it was, and a logo_url (video_url) that is set keeps its value through
\* every later step of the pipeline and through cancellation.
C20_AssetsKept ==
    /\ [](\A i \in 1..Len(load_jobs) :
            \A st \in JobStatus, pr \in ProgressArgs, e \in ErrorArgs :
               LET job == update_fields(load_jobs[i], st, pr, None, None, e)
               IN  /\ job.logo_url = load_jobs[i].logo_url
                   /\ job.video_url = load_jobs[i].video_url)
    /\ [][\A j \in JobIds :
             HasJob(j) =>
                /\ HasJob(j)'
                /\ Rec(j).logo_url # None => Rec(j).logo_url' = Rec(j).logo_url
                /\ Rec(j).video_url # None => Rec(j).video_url' = Rec(j).video_url]_vars

\* A job cancelled after its logo was stored, next to a job completed with
\* both assets.
C20_Witness ==
    \E j, k \in JobIds :
        /\ j \in cancelled /\ Rec(j).logo_url # None /\ Rec(j).status = FAILED
        /\ HasJob(k) /\ Rec(k).status = COMPLETED /\ Rec(k).logo_url # None
        /\ Rec(k).video_url # None

\* How often message m has been delivered to observer o.
Count(o, m) == Cardinality({i \in 1..Len(received[o]) : received[o][i] = m})

\* C23: a broadcast that runs to its end without a failing delivery has
\* delivered its event exactly once to every observer that was registered
\* when it began and is still registered when it ends, whatever connects and
\* disconnects happened while it was suspended.
C23_BroadcastExactlyOnce ==
    [][\A b \in inflight :
          (/\ broadcast_resume(b)
           /\ ws[b.conn] = "open"
           /\ ~\E c \in inflight' : c.route = b.route /\ c.job_id = b.job_id) =>
             \A o \in audience[b.job_id][b.route] :
                list_contains(active_connections', o) => Count(o, b.message)' = 1]_vars

\* C24: when a start request is answered with an error, because create_job
\* failed or because the job_started broadcast failed, the store holds no
\* record for the request, no task runs for it and the registry does not
\* contain it.
C24_NoJobBehindError ==
    [][/\ \A p \in Prompts, g \in BOOLEAN, u \in Users :
             (generate_ad_async(p, g, u) /\ ~save_jobs_ret) =>
                /\ ~HasJob(JobId(uuid_count + 1))'
                /\ task'[JobId(uuid_count + 1)].pc = "none"
                /\ JobId(uuid_count + 1) \notin DOMAIN active_jobs'
       /\ \A b \in inflight :
             (broadcast_resume(b) /\ b.route = "generate" /\ ws[b.conn] # "open") =>
                /\ reply' = [route |-> "generate", job_id |-> b.job_id, status |-> "500"]
                /\ ~HasJob(b.job_id)'
                /\ task'[b.job_id].pc \notin {"ready", "await_logo", "await_video"}
                /\ b.job_id \notin DOMAIN active_jobs']_vars

\* C21: a job id is in active_jobs exactly when its record exists with status
\* pending or processing, also after a restart of the process.
C21_RegistryMatchesStore ==
    \A j \in JobIds :
        j \in DOMAIN active_jobs <=>
           (HasJob(j) /\ Rec(j).status \in {PENDING, PROCESSING})

\* C22: with every runnable task run and every backend call returning or
\* raising, each started job gets to a record that is completed or failed and
\* out of active_jobs, and get_active_jobs_count() gets back to 0 unless a
\* further job is started.
C22_EveryJobEnds ==
    /\ \A j \in JobIds :
          Started(j) ~>
             (HasJob(j) /\ Terminal(Rec(j).status) /\ j \notin DOMAIN active_jobs)
    /\ \A n \in 0..MaxJobs :
          (uuid_count = n) ~> (get_active_jobs_count = 0 \/ uuid_count > n)

\* A job with a video has run through both backend calls to completed, and
\* the registry is empty again.
C22_Witness ==
    /\ uuid_count > 0
    /\ get_active_jobs_count = 0
    /\ \E j \in JobIds :
          /\ HasJob(j) /\ Rec(j).status = COMPLETED
          /\ task[j].pc = "finished" /\ video_fut[j].st = "done"

====
